---- MODULE Spec2Model ----
(***************************************************************************)
(* Model of the pix crate: raster storage, regions and region-based        *)
(* composition (src/src/raster.rs), over the channel conversions of        *)
(* src/src/channel.rs.                                                     *)
(*                                                                         *)
(* A raster is a record [width, height, pixels, P]; pixels is the boxed    *)
(* slice as a row-major sequence (index 1 is slice index 0) and P is the   *)
(* type parameter, a pixel format [chan, n] of n channels of type chan     *)
(* ("Ch8" or "Ch16").  A pixel is the tuple of its channel values.  A      *)
(* region is a record [x, y, width, height] of i32 fields.                 *)
(***************************************************************************)
EXTENDS Integers, Sequences, FiniteSets, TLC

VARIABLES
    built,      \* TRUE once a Raster exists (a with_* call has returned)
    dst,        \* the Raster `self` of the operations
    src,        \* the source Raster of compose_raster / with_raster
    call,       \* the last call: its name and its arguments
    old,        \* the pixels of dst when the last call started
    panicked,   \* TRUE when the last call panicked instead of returning
    given       \* <<width, height>> given to the with_* call for dst

vars == <<built, dst, src, call, old, panicked, given>>

(***************************************************************************)
(* Bounds of the model.                                                    *)
(***************************************************************************)
\* The x origin of a region ranges over -MaxOffX..MaxOffX.
MaxOffX == 2
\* The y origin of a region ranges over -MaxOffY..MaxOffY.
MaxOffY == 1
\* Region extents range over 0..MaxExt, and the extent of the unit region.
MaxExt == 1
\* Raster widths and heights are at most MaxDim.
MaxDim == 2
\* Channel values given by the caller range over 0..MaxValue.
MaxValue == 1
\* Pixel formats have 1..MaxChannels channels.
MaxChannels == 2
\* Buffers handed to the builder hold up to MaxBuf elements.
MaxBuf == 4
\* Sampled channel values lie within MaxEdge of a landmark value.
MaxEdge == 2
\* The f32 values given by the caller are multiples of 2^-MaxFracBits.
MaxFracBits == 2

(***************************************************************************)
(* i32 arithmetic.                                                         *)
(***************************************************************************)
I32Max == 2147483647

Max(a, b) == IF a >= b THEN a ELSE b

Min(a, b) == IF a <= b THEN a ELSE b

\* i32::saturating_add for a second operand that is never negative
saturating_add(a, b) ==
    IF a > 0 /\ b > I32Max - a THEN I32Max ELSE a + b

\* i32::abs, for values above i32::MIN
abs(a) == IF a < 0 THEN -a ELSE a

\* a * b of two non-negative i32 overflows
mul_overflows(a, b) == a > 0 /\ b > I32Max \div a

\* a * b of two non-negative i32, wrapped to 32 bits (two's complement):
\* the product is assembled from 16-bit halves so that no intermediate
\* value leaves the 32-bit range.
wrapping_mul(a, b) ==
    LET ah == a \div 65536
        al == a % 65536
        bh == b \div 65536
        bl == b % 65536
        t0 == al * (bl % 256)
        t1 == al * (bl \div 256)
        low == ((t1 % 256) * 256) + t0
        lo16 == low % 65536
        hi16 == (t1 \div 256) + (low \div 65536)
        cross == (((ah * bl) % 65536) + ((al * bh) % 65536)) % 65536
        hi == (hi16 + cross) % 65536
    IN  IF hi >= 32768 THEN (hi - 65536) * 65536 + lo16
        ELSE hi * 65536 + lo16

\* `width * height` on i32.  With overflow checks (a debug build) an
\* overflowing product panics; without them (a release build) it wraps.
\* The result is [panic, value].
i32_mul(a, b, checks) ==
    IF mul_overflows(a, b)
    THEN IF checks THEN [panic |-> TRUE, value |-> 0]
         ELSE [panic |-> FALSE, value |-> wrapping_mul(a, b)]
    ELSE [panic |-> FALSE, value |-> a * b]

\* a - b of two i32 leaves the i32 range
sub_overflows(a, b) ==
    \/ b > 0 /\ a < (-I32Max - 1) + b
    \/ b < 0 /\ a > I32Max + b

\* a - b of two i32 whose difference overflows, wrapped to 32 bits; the
\* 2^32 is added or taken in two halves so that no intermediate value
\* leaves the 32-bit range.
wrapping_sub(a, b) ==
    IF b > 0
    THEN (((a + I32Max) + 1) - b) + I32Max + 1
    ELSE (((a - I32Max) - 1) - b) - I32Max - 1

\* `a - b` on i32: panics on overflow with overflow checks, wraps without.
\* The result is [panic, value].
i32_sub(a, b, checks) ==
    IF sub_overflows(a, b)
    THEN IF checks THEN [panic |-> TRUE, value |-> 0]
         ELSE [panic |-> FALSE, value |-> wrapping_sub(a, b)]
    ELSE [panic |-> FALSE, value |-> a - b]

(***************************************************************************)
(* Region                                                                  *)
(***************************************************************************)
\* Region::new: a width or height that does not fit an i32 becomes 0
Region_new(x, y, width, height) ==
    [x |-> x, y |-> y,
     width  |-> IF width  \in 0..I32Max THEN width  ELSE 0,
     height |-> IF height \in 0..I32Max THEN height ELSE 0]

\* impl From<()> for Region
Region_from_unit == Region_new(0, 0, I32Max, I32Max)

right(r) == saturating_add(r.x, r.width)

bottom(r) == saturating_add(r.y, r.height)

\* The pixel coordinates a region contains.
InRegion(r, px, py) ==
    /\ r.x <= px /\ px - r.x < r.width
    /\ r.y <= py /\ py - r.y < r.height

\* Region::intersection.  `(x1 - x0) as u32` keeps the bits of the i32
\* difference, so a negative difference is a u32 above i32::MAX, which
\* Region::new turns into 0; the u32 is carried here as the i32 with the
\* same bits.  The result is [panic, region].
Region_intersection(self, rhs, checks) ==
    LET x0 == Max(self.x, rhs.x)
        x1 == Min(right(self), right(rhs))
        w  == i32_sub(x1, x0, checks)
        y0 == Max(self.y, rhs.y)
        y1 == Min(bottom(self), bottom(rhs))
        h  == i32_sub(y1, y0, checks)
    IN  IF w.panic \/ h.panic
        THEN [panic |-> TRUE, region |-> self]
        ELSE [panic |-> FALSE, region |-> Region_new(x0, y0, w.value, h.value)]

(***************************************************************************)
(* Raster                                                                  *)
(***************************************************************************)
Coords(r) == (0..(r.width - 1)) \X (0..(r.height - 1))

InRaster(r, px, py) == px >= 0 /\ px < r.width /\ py >= 0 /\ py < r.height

\* Raster::pixel: i = (self.width * y + x) as usize; self.pixels[i]
pixel(r, px, py) == r.pixels[(r.width * py + px) + 1]

\* Raster::intersection without the clamp of a negative extent to zero
intersection_unclamped(r, reg) ==
    LET x0 == Max(reg.x, 0)
        x1 == Min(right(reg), r.width)
        y0 == Max(reg.y, 0)
        y1 == Min(bottom(reg), r.height)
    IN  [x |-> x0, y |-> y0, width |-> x1 - x0, height |-> y1 - y0]

\* Raster::intersection
intersection(r, reg) ==
    LET x0 == Max(reg.x, 0)
        x1 == Min(right(reg), r.width)
        w  == Max(x1 - x0, 0)
        y0 == Max(reg.y, 0)
        y1 == Min(bottom(reg), r.height)
        h  == Max(y1 - y0, 0)
    IN  Region_new(x0, y0, w, h)

\* Rows::new / RowsMut::new: chunks_exact(width) yields this many rows
rows_len(r) == Len(r.pixels) \div r.width

(***************************************************************************)
(* Channel and pixel conversion                                            *)
(***************************************************************************)
\* impl From<u8> for Ch16: value << 8 | value
Ch16_from_u8(v) == v * 256 + v

\* impl From<Ch16> for u8: c.0 >> 8
u8_from_Ch16(v) == v \div 256

\* The channel conversion P::Chan: From<S::Chan>.
Chan_from(v, S, D) ==
    IF S = D THEN v
    ELSE IF S = "Ch8" THEN Ch16_from_u8(v) ELSE u8_from_Ch16(v)

\* Pixel::convert between two formats of one colour model: each channel is
\* rescaled to the precision of the destination format.
convert(p, S, D) == [c \in DOMAIN p |-> Chan_from(p[c], S.chan, D.chan)]

\* A pixel format of n channels of type chan.
Format(chan, n) == [chan |-> chan, n |-> n]

\* P::default(): every channel zero
Pixel_default(P) == [c \in 1..P.n |-> 0]

(***************************************************************************)
(* Composition.  Each operator returns [panic, pixels]: whether the call   *)
(* panics, and the pixels of `self` when it ends.                          *)
(***************************************************************************)
\* TRUE when pixel i (1-based, row-major) of r lies in the rectangle with
\* origin (x0, y0) spanning ncols columns and nrows rows.
InRect(r, i, x0, y0, ncols, nrows) ==
    LET px == (i - 1) % r.width
        py == (i - 1) \div r.width
    IN  /\ px >= x0 /\ px < x0 + ncols
        /\ py >= y0 /\ py < y0 + nrows

\* for d in drow.iter_mut().take(width) { *d = s } over the rows taken
FillRect(r, x0, y0, ncols, nrows, clr) ==
    [i \in 1..Len(r.pixels) |->
        IF InRect(r, i, x0, y0, ncols, nrows) THEN clr ELSE r.pixels[i]]

\* for (d, s) in drow.iter_mut().take(width).zip(srow) { *d = s.convert() }
\* over the rows taken: cell (x0 + i, y0 + k) takes source (sx + i, sy + k)
CopyRect(r, x0, y0, ncols, nrows, s, sx, sy) ==
    [i \in 1..Len(r.pixels) |->
        IF InRect(r, i, x0, y0, ncols, nrows)
        THEN convert(pixel(s, sx + ((i - 1) % r.width) - x0,
                              sy + ((i - 1) \div r.width) - y0), s.P, r.P)
        ELSE r.pixels[i]]

\* compose_color filling from column 0 of each row instead of reg.x
compose_color_from_col0(r, reg0, clr, S) ==
    LET reg    == intersection(r, reg0)
        width  == reg.width
        height == reg.height
        s      == convert(clr, S, r.P)
        nrows  == Max(0, Min(height, rows_len(r) - reg.y))
        ncols  == Max(0, Min(width, r.width))
    IN  IF width > 0 /\ height > 0
        THEN [panic  |-> FALSE,
              pixels |-> FillRect(r, 0, reg.y, ncols, nrows, s)]
        ELSE [panic |-> FALSE, pixels |-> r.pixels]

\* Raster::compose_color
compose_color(r, reg0, clr, S) ==
    LET reg    == intersection(r, reg0)
        width  == reg.width
        height == reg.height
        s      == convert(clr, S, r.P)
        \* rows_mut().skip(reg.y).take(height)
        nrows  == Max(0, Min(height, rows_len(r) - reg.y))
        \* &mut drow[reg.x..] panics when reg.x is past the end of the row
        slice_panic == nrows > 0 /\ reg.x > r.width
        \* drow.iter_mut().take(width)
        ncols  == Max(0, Min(width, r.width - reg.x))
    IN  IF width > 0 /\ height > 0
        THEN IF slice_panic
             THEN [panic |-> TRUE, pixels |-> r.pixels]
             ELSE [panic  |-> FALSE,
                   pixels |-> FillRect(r, reg.x, reg.y, ncols, nrows, s)]
        ELSE [panic |-> FALSE, pixels |-> r.pixels]

\* compose_regions without the shift of `from` by the overhang of `to`
compose_regions_unshifted(r, to0, s, from0) ==
    LET fx     == abs(Min(from0.x, 0))
        fy     == abs(Min(from0.y, 0))
        to1    == intersection(r, to0)
        from1  == intersection(s, from0)
        width  == Min(to1.width, from1.width)
        height == Min(to1.height, from1.height)
    IN  [empty |-> ~(width > 0 /\ height > 0),
         to    |-> Region_new(to1.x + fx, to1.y + fy, width, height),
         from  |-> Region_new(from1.x, from1.y, width, height)]

\* compose_regions shifting each region by its own overhang
compose_regions_same_side(r, to0, s, from0) ==
    LET tx     == abs(Min(to0.x, 0))
        ty     == abs(Min(to0.y, 0))
        fx     == abs(Min(from0.x, 0))
        fy     == abs(Min(from0.y, 0))
        to1    == intersection(r, to0)
        from1  == intersection(s, from0)
        width  == Min(to1.width, from1.width)
        height == Min(to1.height, from1.height)
    IN  [empty |-> ~(width > 0 /\ height > 0),
         to    |-> Region_new(to1.x + tx, to1.y + ty, width, height),
         from  |-> Region_new(from1.x + fx, from1.y + fy, width, height)]

\* compose_regions taking the size of `from` alone
compose_regions_from_size(r, to0, s, from0) ==
    LET tx     == abs(Min(to0.x, 0))
        ty     == abs(Min(to0.y, 0))
        fx     == abs(Min(from0.x, 0))
        fy     == abs(Min(from0.y, 0))
        to1    == intersection(r, to0)
        from1  == intersection(s, from0)
        width  == from1.width
        height == from1.height
    IN  [empty |-> ~(width > 0 /\ height > 0),
         to    |-> Region_new(to1.x + fx, to1.y + fy, width, height),
         from  |-> Region_new(from1.x + tx, from1.y + ty, width, height)]

\* The two regions compose_raster iterates over, after clipping and
\* shifting; empty is TRUE when the call returns before iterating.
compose_regions(r, to0, s, from0) ==
    LET tx     == abs(Min(to0.x, 0))
        ty     == abs(Min(to0.y, 0))
        fx     == abs(Min(from0.x, 0))
        fy     == abs(Min(from0.y, 0))
        to1    == intersection(r, to0)
        from1  == intersection(s, from0)
        width  == Min(to1.width, from1.width)
        height == Min(to1.height, from1.height)
    IN  [empty |-> ~(width > 0 /\ height > 0),
         to    |-> Region_new(to1.x + fx, to1.y + fy, width, height),
         from  |-> Region_new(from1.x + tx, from1.y + ty, width, height)]

\* Raster::compose_raster
compose_raster(r, to0, s, from0) ==
    LET regs   == compose_regions(r, to0, s, from0)
        to     == regs.to
        from   == regs.from
        \* src.rows().skip(from.y), self.rows_mut().skip(to.y),
        \* drows.take(height).zip(srows)
        nrows  == Max(0, Min(to.height,
                         Min(rows_len(r) - to.y, rows_len(s) - from.y)))
        \* &mut drow[to.x..] and &srow[from.x..] panic when the start is
        \* past the end of the row; they run in the first iteration, before
        \* any pixel is written
        slice_panic == nrows > 0 /\ (to.x > r.width \/ from.x > s.width)
        \* drow.iter_mut().take(width).zip(srow)
        ncols  == Max(0, Min(to.width,
                         Min(r.width - to.x, s.width - from.x)))
    IN  IF regs.empty
        THEN [panic |-> FALSE, pixels |-> r.pixels]
        ELSE IF slice_panic
             THEN [panic |-> TRUE, pixels |-> r.pixels]
             ELSE [panic  |-> FALSE,
                   pixels |-> CopyRect(r, to.x, to.y, ncols, nrows,
                                       s, from.x, from.y)]

(***************************************************************************)
(* RasterBuilder.  Each with_* operator returns [panic, raster]; checks    *)
(* tells whether the build has overflow checks.                            *)
(***************************************************************************)
NoRaster ==
    [width |-> 0, height |-> 0, pixels |-> <<>>, P |-> Format("Ch8", 1)]

\* The result of a with_* call that panics.
Failed == [panic |-> TRUE, raster |-> NoRaster]

Built(width, height, pixels, P) ==
    [panic  |-> FALSE,
     raster |-> [width |-> width, height |-> height,
                 pixels |-> pixels, P |-> P]]

\* RasterBuilder::with_color; a negative len cast to usize is a length no
\* allocation satisfies
with_color(width, height, clr, P, checks) ==
    LET len == i32_mul(width, height, checks)
    IN  IF width \notin 0..I32Max \/ height \notin 0..I32Max THEN Failed
        ELSE IF len.panic \/ len.value < 0 THEN Failed
        ELSE Built(width, height, [i \in 1..len.value |-> clr], P)

\* RasterBuilder::with_clear
with_clear(width, height, P, checks) ==
    with_color(width, height, Pixel_default(P), P, checks)

\* RasterBuilder::with_pixels
with_pixels(width, height, pixels, P, checks) ==
    LET len == i32_mul(width, height, checks)
    IN  IF width \notin 0..I32Max \/ height \notin 0..I32Max THEN Failed
        ELSE IF len.panic THEN Failed
        ELSE IF len.value # Len(pixels) THEN Failed
        ELSE Built(width, height, pixels, P)

\* from_raw_parts reading the buffer as n planes of len elements
from_raw_parts_planar(buffer, len, n) ==
    [i \in 1..len |-> [c \in 1..n |-> buffer[(c - 1) * len + i]]]

\* from_raw_parts_mut(ptr as *mut P, len): pixel i of the slice is the n
\* buffer elements starting at element i * n
from_raw_parts(buffer, len, n) ==
    [i \in 1..len |-> [c \in 1..n |-> buffer[(i - 1) * n + c]]]

\* RasterBuilder::with_u8_buffer for a format of n Ch8 channels
\* (size_of::<P>() is n, size_of::<u8>() is 1)
with_u8_buffer(width, height, buffer, n, checks) ==
    LET len == i32_mul(width, height, checks)
        capacity == Len(buffer)
    IN  IF width \notin 0..I32Max \/ height \notin 0..I32Max THEN Failed
        ELSE IF len.panic \/ ~(len.value > 0) THEN Failed
        ELSE IF len.value * n # capacity * 1 THEN Failed
        ELSE Built(width, height, from_raw_parts(buffer, len.value, n),
                   Format("Ch8", n))

\* RasterBuilder::with_u16_buffer for a format of n Ch16 channels
\* (size_of::<P>() is 2 * n, size_of::<u16>() is 2)
with_u16_buffer(width, height, buffer, n, checks) ==
    LET len == i32_mul(width, height, checks)
        capacity == Len(buffer)
    IN  IF width \notin 0..I32Max \/ height \notin 0..I32Max THEN Failed
        ELSE IF len.panic \/ ~(len.value > 0) THEN Failed
        ELSE IF len.value * (2 * n) # capacity * 2 THEN Failed
        ELSE Built(width, height, from_raw_parts(buffer, len.value, n),
                   Format("Ch16", n))

\* RasterBuilder::with_raster: with_clear(src.width(), src.height()), then
\* compose_raster((), src, ())
with_raster(s, P, checks) ==
    LET r == with_clear(s.width, s.height, P, checks)
        c == compose_raster(r.raster, Region_from_unit, s, Region_from_unit)
    IN  IF r.panic \/ c.panic THEN Failed
        ELSE Built(r.raster.width, r.raster.height, c.pixels, P)

\* Raster::clear
clear(r) == [i \in 1..Len(r.pixels) |-> Pixel_default(r.P)]

\* *r.pixel_mut(x, y) = p: the index (self.width * y + x) is checked
\* against the length of the slice.  The result is [panic, pixels].
pixel_mut(r, px, py, p) ==
    LET i == r.width * py + px
    IN  IF i >= Len(r.pixels)
        THEN [panic |-> TRUE, pixels |-> r.pixels]
        ELSE [panic |-> FALSE, pixels |-> [r.pixels EXCEPT ![i + 1] = p]]

\* Raster::pixels
pixels(r) == r.pixels

(***************************************************************************)
(* Inputs                                                                  *)
(***************************************************************************)
OriginsX == (-MaxOffX)..MaxOffX

OriginsY == (-MaxOffY)..MaxOffY

Extents == (0..MaxExt) \cup {I32Max}

\* The regions a caller passes; the unit type () is
\* Region_new(0, 0, I32Max, I32Max).
Regions ==
    {Region_new(x, y, w, h) : x \in OriginsX, y \in OriginsY,
                              w \in Extents, h \in Extents}

\* The few regions of the calls made in sequence.
SeqRegions ==
    {Region_from_unit, Region_new(-1, -1, MaxExt, MaxExt),
     Region_new(1, 0, MaxExt, 1)}

\* A colour of format P given by the caller: every channel has the value v.
Colour(P, v) == [c \in 1..P.n |-> v]

Gray8 == Format("Ch8", 1)

Gray16 == Format("Ch16", 1)

\* A source image in which every pixel differs from every other: the
\* pixel at slice index i - 1 has the value i in every channel.
Pattern(len, P) == [i \in 1..len |-> Colour(P, i)]

\* Dimensions whose product overflows an i32 and wraps to a small length:
\* 65536 * 65536 = 2^32 wraps to 0 and 641 * 6700417 = 2^32 + 1 wraps to 1.
OverflowDims == {<<65536, 65536>>, <<641, 6700417>>}

BuilderDims == ((0..MaxDim) \X (0..MaxDim)) \cup OverflowDims

\* Sequences of up to n elements of S.
SeqsUpTo(S, n) == UNION {[1..k -> S] : k \in 0..n}

BuilderOps ==
    {"with_clear", "with_color", "with_pixels", "with_u8_buffer",
     "with_u16_buffer", "with_raster"}

(***************************************************************************)
(* Actions: the operations of a Raster                                     *)
(***************************************************************************)
\* r.clear()
Clear ==
    /\ built /\ ~panicked
    /\ call' = [op |-> "clear"]
    /\ old' = dst.pixels
    /\ dst' = [dst EXCEPT !.pixels = clear(dst)]
    /\ panicked' = FALSE
    /\ UNCHANGED <<built, src, given>>

\* *r.pixel_mut(x, y) = p, with x and y inside the raster
PixelMut(px, py, p) ==
    /\ built /\ ~panicked
    /\ InRaster(dst, px, py)
    /\ LET res == pixel_mut(dst, px, py, p)
       IN  /\ call' = [op |-> "pixel_mut", x |-> px, y |-> py, p |-> p]
           /\ old' = dst.pixels
           /\ dst' = [dst EXCEPT !.pixels = res.pixels]
           /\ panicked' = res.panic
    /\ UNCHANGED <<built, src, given>>

\* r.intersection(reg)
Intersection(reg) ==
    /\ built /\ ~panicked
    /\ call' = [op |-> "intersection", reg |-> reg,
                result |-> intersection(dst, reg)]
    /\ old' = dst.pixels
    /\ panicked' = FALSE
    /\ UNCHANGED <<built, dst, src, given>>

\* r.compose_color(reg, clr), for a colour of the source format S
ComposeColor(reg, clr, S) ==
    /\ built /\ ~panicked
    /\ LET res == compose_color(dst, reg, clr, S)
       IN  /\ call' = [op |-> "compose_color", reg |-> reg, clr |-> clr,
                       S |-> S]
           /\ old' = dst.pixels
           /\ dst' = [dst EXCEPT !.pixels = res.pixels]
           /\ panicked' = res.panic
    /\ UNCHANGED <<built, src, given>>

\* r.compose_raster(to, &src, from)
ComposeRaster(to, from) ==
    /\ built /\ ~panicked
    /\ LET res == compose_raster(dst, to, src, from)
       IN  /\ call' = [op |-> "compose_raster", to |-> to, from |-> from]
           /\ old' = dst.pixels
           /\ dst' = [dst EXCEPT !.pixels = res.pixels]
           /\ panicked' = res.panic
    /\ UNCHANGED <<built, src, given>>

(***************************************************************************)
(* Spec: one operation on two rasters built by the caller.  The            *)
(* destination is a Gray16 raster of one colour and the source a Gray8     *)
(* raster whose pixels all differ; the regions range over Regions.         *)
(***************************************************************************)
\* The colour the destination is built with; no conversion of a Ch8 value
\* yields it.
DstFill == Colour(Gray16, 2)

\* The shapes <<width, height>> of the destination and of the source.
DstShapes == {<<MaxDim, MaxDim>>, <<1, MaxDim>>}

SrcShapes == {<<MaxDim, MaxDim>>, <<MaxDim, 1>>}

Init ==
    \E d \in DstShapes, s \in SrcShapes :
        /\ built = TRUE
        /\ dst = with_color(d[1], d[2], DstFill, Gray16, TRUE).raster
        /\ src = with_pixels(s[1], s[2], Pattern(s[1] * s[2], Gray8), Gray8,
                             TRUE).raster
        /\ call = [op |-> "with_color"]
        /\ old = dst.pixels
        /\ panicked = FALSE
        /\ given = d

\* The last call built the raster: no operation was applied to it yet.
Fresh == call.op \in BuilderOps

Next ==
    \/ Fresh /\ Clear
    \/ /\ Fresh
       /\ \E c \in Coords(dst), v \in 0..MaxValue :
            PixelMut(c[1], c[2], Colour(dst.P, v))
    \/ /\ Fresh
       /\ \E reg \in Regions, v \in 0..MaxValue :
            ComposeColor(reg, Colour(Gray8, v), Gray8)
    \/ /\ Fresh
       /\ \E to \in Regions, from \in Regions : ComposeRaster(to, from)
    \/ /\ Fresh
       /\ \E reg \in Regions : Intersection(reg)

Spec == Init /\ [][Next]_vars

(***************************************************************************)
(* Actions: the with_* methods of RasterBuilder.  A call that panics       *)
(* builds no raster.  The source raster of later compose_raster calls is   *)
(* built along, in the colour model of the new raster.                     *)
(***************************************************************************)
Formats == {Format(chan, n) : chan \in {"Ch8", "Ch16"}, n \in 1..MaxChannels}

\* The source raster of the calls made in sequence: MaxDim by 1 pixels of
\* n Ch8 channels, all different.
SeqSource(n) ==
    with_pixels(MaxDim, 1, Pattern(MaxDim, Format("Ch8", n)),
                Format("Ch8", n), TRUE).raster

Finish(res, n) ==
    /\ given' = <<call'.width, call'.height>>
    /\ built' = ~res.panic
    /\ panicked' = res.panic
    /\ dst' = res.raster
    /\ old' = res.raster.pixels
    /\ src' = SeqSource(n)

WithClear(width, height, P, checks) ==
    /\ ~built /\ ~panicked
    /\ call' = [op |-> "with_clear", width |-> width, height |-> height,
                len |-> 0, n |-> P.n, checks |-> checks]
    /\ Finish(with_clear(width, height, P, checks), P.n)

WithColor(width, height, clr, P, checks) ==
    /\ ~built /\ ~panicked
    /\ call' = [op |-> "with_color", width |-> width, height |-> height,
                len |-> 0, n |-> P.n, checks |-> checks]
    /\ Finish(with_color(width, height, clr, P, checks), P.n)

WithPixels(width, height, pix, P, checks) ==
    /\ ~built /\ ~panicked
    /\ call' = [op |-> "with_pixels", width |-> width, height |-> height,
                buffer |-> pix, len |-> Len(pix), n |-> 1,
                checks |-> checks]
    /\ Finish(with_pixels(width, height, pix, P, checks), P.n)

WithU8Buffer(width, height, buffer, n, checks) ==
    /\ ~built /\ ~panicked
    /\ call' = [op |-> "with_u8_buffer", width |-> width,
                height |-> height, buffer |-> buffer, len |-> Len(buffer),
                n |-> n, checks |-> checks]
    /\ Finish(with_u8_buffer(width, height, buffer, n, checks), n)

WithU16Buffer(width, height, buffer, n, checks) ==
    /\ ~built /\ ~panicked
    /\ call' = [op |-> "with_u16_buffer", width |-> width,
                height |-> height, buffer |-> buffer, len |-> Len(buffer),
                n |-> n, checks |-> checks]
    /\ Finish(with_u16_buffer(width, height, buffer, n, checks), n)

WithRaster(s, P, checks) ==
    /\ ~built /\ ~panicked
    /\ LET res == with_raster(s, P, checks)
       IN  /\ call' = [op |-> "with_raster", width |-> s.width,
                       height |-> s.height, len |-> 0, n |-> P.n,
                       checks |-> checks]
           /\ given' = <<s.width, s.height>>
           /\ built' = ~res.panic
           /\ panicked' = res.panic
           /\ dst' = res.raster
           /\ old' = res.raster.pixels
           /\ src' = s

(***************************************************************************)
(* SpecBuild: one with_* call on a new RasterBuilder.                      *)
(***************************************************************************)
InitBuild ==
    /\ built = FALSE
    /\ dst = NoRaster
    /\ src = NoRaster
    /\ call = [op |-> "new"]
    /\ old = <<>>
    /\ panicked = FALSE
    /\ given = <<0, 0>>

\* Buffers of up to MaxBuf channel values.
Buffers == SeqsUpTo(0..MaxValue, MaxBuf)

\* Vectors of up to MaxBuf pixels of format P.
PixelVecs(P) == SeqsUpTo({Colour(P, v) : v \in 0..MaxValue}, MaxBuf)

\* The source rasters with_raster copies.
Sources ==
    {with_pixels(d[1], d[2], Pattern(d[1] * d[2], Format("Ch8", n)),
                 Format("Ch8", n), TRUE).raster :
        d \in (0..MaxDim) \X (0..MaxDim), n \in 1..MaxChannels}

NextBuild ==
    \/ /\ ~built /\ ~panicked
       /\ \E d \in BuilderDims, P \in Formats, checks \in BOOLEAN :
           WithClear(d[1], d[2], P, checks)
    \/ /\ ~built /\ ~panicked
       /\ \E d \in BuilderDims, P \in Formats, v \in 0..MaxValue,
             checks \in BOOLEAN :
           WithColor(d[1], d[2], Colour(P, v), P, checks)
    \/ /\ ~built /\ ~panicked
       /\ \E d \in BuilderDims, P \in Formats, checks \in BOOLEAN :
           \E pix \in PixelVecs(P) : WithPixels(d[1], d[2], pix, P, checks)
    \/ /\ ~built /\ ~panicked
       /\ \E d \in BuilderDims, buffer \in Buffers, n \in 1..MaxChannels,
             checks \in BOOLEAN :
           WithU8Buffer(d[1], d[2], buffer, n, checks)
    \/ /\ ~built /\ ~panicked
       /\ \E d \in BuilderDims, buffer \in Buffers, n \in 1..MaxChannels,
             checks \in BOOLEAN :
           WithU16Buffer(d[1], d[2], buffer, n, checks)
    \/ /\ ~built /\ ~panicked
       /\ \E s \in Sources, chan \in {"Ch8", "Ch16"}, checks \in BOOLEAN :
           WithRaster(s, Format(chan, s.P.n), checks)

SpecBuild == InitBuild /\ [][NextBuild]_vars

(***************************************************************************)
(* SpecSeq: a with_* call on a new RasterBuilder, then any sequence of     *)
(* clear, pixel_mut, compose_color and compose_raster calls on the raster  *)
(* it built.                                                               *)
(***************************************************************************)
\* The coordinates pixel_mut is called with.
SeqCoords(r) ==
    (0..(Min(r.width, MaxDim) - 1)) \X (0..(Min(r.height, MaxDim) - 1))

NextSeq ==
    \/ NextBuild
    \/ Clear
    \/ \E c \in SeqCoords(dst), v \in 0..MaxValue :
        PixelMut(c[1], c[2], Colour(dst.P, v))
    \/ \E reg \in SeqRegions, v \in 0..MaxValue :
        ComposeColor(reg, Colour(src.P, v), src.P)
    \/ \E to \in SeqRegions, from \in SeqRegions : ComposeRaster(to, from)

SpecSeq == InitBuild /\ [][NextSeq]_vars

(***************************************************************************)
(* Properties of compose_raster and compose_color (checked under Spec)     *)
(***************************************************************************)
\* The pixel of dst at (px, py) when the last call started.
OldPixel(px, py) == old[(dst.width * py + px) + 1]

\* The last call changed the pixel of dst at (px, py).
Modified(px, py) == pixel(dst, px, py) # OldPixel(px, py)

\* The source pixel aligned with the destination pixel (px, py) in
\* compose_raster(to, src, from).
AlignedX(px) == px - call.to.x + call.from.x

AlignedY(py) == py - call.to.y + call.from.y

\* `from` covers the entire source raster, from its origin.
FromCoversSource ==
    /\ call.from.x = 0 /\ call.from.y = 0
    /\ call.from.width >= src.width /\ call.from.height >= src.height

\* C1: after compose_raster with a `to` of negative x or y origin and a
\* `from` covering the whole source, a destination pixel (dx, dy) holds
\* convert(source pixel (dx - to.x, dy - to.y)) exactly when it lies inside
\* `to` and that source pixel exists; every other destination pixel holds
\* the value it had before the call.
C1_NegativeOriginCopiesVisibleOverlap ==
    (/\ call.op = "compose_raster"
     /\ call.to.x < 0 \/ call.to.y < 0
     /\ FromCoversSource)
    => \A c \in Coords(dst) :
        LET sx == c[1] - call.to.x
            sy == c[2] - call.to.y
        IN  IF InRegion(call.to, c[1], c[2]) /\ InRaster(src, sx, sy)
            THEN pixel(dst, c[1], c[2])
                    = convert(pixel(src, sx, sy), src.P, dst.P)
            ELSE pixel(dst, c[1], c[2]) = OldPixel(c[1], c[2])

\* C1 witness: a blit at (-1, -1) that copied a pixel and left another.
C1_Witness ==
    /\ call.op = "compose_raster"
    /\ call.to.x = -1 /\ call.to.y = -1
    /\ FromCoversSource
    /\ src.width = MaxDim /\ src.height = MaxDim
    /\ dst.width = MaxDim /\ dst.height = MaxDim
    /\ pixel(dst, 0, 0) = convert(pixel(src, 1, 1), src.P, dst.P)
    /\ \E c \in Coords(dst) : ~Modified(c[1], c[2])

\* C2: every destination pixel (dx, dy) that compose_raster modifies holds
\* the conversion of the source pixel at
\* (dx - to.x + from.x, dy - to.y + from.y).
C2_ModifiedPixelsAligned ==
    call.op = "compose_raster"
    => \A c \in Coords(dst) :
        Modified(c[1], c[2])
        => /\ InRaster(src, AlignedX(c[1]), AlignedY(c[2]))
           /\ pixel(dst, c[1], c[2])
                = convert(pixel(src, AlignedX(c[1]), AlignedY(c[2])),
                          src.P, dst.P)

\* C2 witness: a call with negative origins on both sides that modified a
\* pixel.
C2_Witness ==
    /\ call.op = "compose_raster"
    /\ call.to.x < 0 /\ call.from.y < 0
    /\ \E c \in Coords(dst) : Modified(c[1], c[2])

\* C3: every destination pixel that compose_raster modifies lies inside
\* `to` clipped to the destination, and the source pixel copied to it lies
\* inside `from` clipped to the source.
C3_ComposedRegionClamped ==
    call.op = "compose_raster"
    => \A c \in Coords(dst) :
        Modified(c[1], c[2])
        => /\ InRegion(call.to, c[1], c[2])
           /\ InRegion(call.from, AlignedX(c[1]), AlignedY(c[2]))
           /\ InRaster(src, AlignedX(c[1]), AlignedY(c[2]))

\* `to` holds no pixel of the destination raster.
ToOutside == \A c \in Coords(dst) : ~InRegion(call.to, c[1], c[2])

C5_ComposeTotal ==
    call.op \in {"compose_raster", "compose_color"} => ~panicked

\* C23: compose_raster copies the whole overlap.  For all `to` and `from`,
\* negative origins included, every destination pixel (dx, dy) inside `to`
\* whose aligned source pixel (dx - to.x + from.x, dy - to.y + from.y) lies
\* inside `from` and inside the source holds the conversion of that source
\* pixel after the call: none is skipped.
C23_ComposeCopiesWholeOverlap ==
    call.op = "compose_raster"
    => \A c \in Coords(dst) :
        (/\ InRegion(call.to, c[1], c[2])
         /\ InRegion(call.from, AlignedX(c[1]), AlignedY(c[2]))
         /\ InRaster(src, AlignedX(c[1]), AlignedY(c[2])))
        => pixel(dst, c[1], c[2])
             = convert(pixel(src, AlignedX(c[1]), AlignedY(c[2])),
                       src.P, dst.P)

\* C6: after compose_color(reg, clr) every pixel of the raster inside reg
\* holds convert(clr) and every other pixel holds the value it had; the
\* call does not panic.
C6_ComposeColorFillsClippedRegion ==
    call.op = "compose_color"
    => /\ ~panicked
       /\ \A c \in Coords(dst) :
            IF InRegion(call.reg, c[1], c[2])
            THEN pixel(dst, c[1], c[2]) = convert(call.clr, call.S, dst.P)
            ELSE pixel(dst, c[1], c[2]) = OldPixel(c[1], c[2])

\* C6 witness: a fill that changed one pixel and left another.
C6_Witness ==
    /\ call.op = "compose_color"
    /\ call.reg.x > 0
    /\ \E c \in Coords(dst) : Modified(c[1], c[2])
    /\ \E c \in Coords(dst) : ~Modified(c[1], c[2])

\* C10: intersection(reg) has a width and a height that are not negative,
\* holds exactly the coordinates that lie in reg and in the raster, and
\* has area zero when reg and the raster are disjoint.
C10_IntersectionIsClippedRegion ==
    call.op = "intersection"
    => LET r == call.result
       IN  /\ r.width >= 0 /\ r.height >= 0
           /\ \A c \in Coords(dst) :
                InRegion(r, c[1], c[2]) <=> InRegion(call.reg, c[1], c[2])
           /\ (r.width > 0 /\ r.height > 0)
                => /\ r.x >= 0 /\ r.x + r.width <= dst.width
                   /\ r.y >= 0 /\ r.y + r.height <= dst.height
           /\ (\A c \in Coords(dst) : ~InRegion(call.reg, c[1], c[2]))
                => r.width * r.height = 0

\* C10 witness: a region that starts above the raster and ends past its
\* right edge, clipped to a smaller region that is not empty.
C10_Witness ==
    /\ call.op = "intersection"
    /\ call.reg.y < 0 /\ call.reg.x > 0
    /\ call.result.width > 0 /\ call.result.height > 0
    /\ call.result.width < call.reg.width
    /\ call.result.y = 0

(***************************************************************************)
(* Properties of RasterBuilder and of the shape of a Raster                *)
(***************************************************************************)
\* len = width * height over the integers, without multiplying.
IsProduct(len, width, height) ==
    IF width = 0 \/ height = 0 THEN len = 0
    ELSE len % width = 0 /\ len \div width = height

\* The buffer of the last with_* call holds width * height * n elements.
BufferMatches ==
    /\ call.len % call.n = 0
    /\ IsProduct(call.len \div call.n, call.width, call.height)

\* C7: after the with_* call that builds it and after every later clear,
\* pixel_mut, compose_color and compose_raster call, the pixel buffer of a
\* raster holds exactly width * height pixels, and its width and height
\* are the ones given to the with_* call.
C7_RasterShape ==
    built => /\ IsProduct(Len(dst.pixels), dst.width, dst.height)
             /\ dst.width = given[1] /\ dst.height = given[2]

\* C8: with_pixels, with_u8_buffer and with_u16_buffer panic, and build no
\* raster, when the buffer does not hold width * height * n elements
\* (n = 1 for with_pixels).
C8_MismatchedBufferFails ==
    (/\ call.op \in {"with_pixels", "with_u8_buffer", "with_u16_buffer"}
     /\ ~BufferMatches)
    => (panicked /\ ~built)

\* C9: in a raster built by with_u8_buffer or with_u16_buffer from a
\* buffer of matching length, channel c of pixel(x, y) is
\* buffer[(y * width + x) * n + c], and pixels() lists the pixels row by
\* row (sequence indices are slice indices plus one).
C9_BufferRoundTrip ==
    (/\ call.op \in {"with_u8_buffer", "with_u16_buffer"}
     /\ built
     /\ BufferMatches)
    => /\ \A xy \in Coords(dst) : \A c \in 1..call.n :
            pixel(dst, xy[1], xy[2])[c]
                = call.buffer[(xy[2] * dst.width + xy[1]) * call.n + c]
       /\ Len(pixels(dst)) = dst.width * dst.height
       /\ \A xy \in Coords(dst) :
            pixels(dst)[(xy[2] * dst.width + xy[1]) + 1]
                = pixel(dst, xy[1], xy[2])

\* C9 witness: a raster of two pixels of two channels built from a buffer
\* whose elements are not all equal.
C9_Witness ==
    /\ call.op = "with_u8_buffer"
    /\ built
    /\ BufferMatches
    /\ call.n = 2 /\ dst.width = 2 /\ dst.height = 1
    /\ call.buffer[2] # call.buffer[3]

(***************************************************************************)
(* SpecRegion: one Region::intersection call on two regions built by the   *)
(* caller; the x origins also take the two ends of the i32 range.          *)
(***************************************************************************)
EdgeOriginsX == OriginsX \cup {-I32Max - 1, I32Max}

RegionArgs ==
    {Region_new(x, y, w, h) : x \in EdgeOriginsX, y \in OriginsY,
                              w \in Extents, h \in Extents}

\* a.intersection(b)
RegionIntersection(a, b, checks) ==
    /\ call.op = "new"
    /\ LET res == Region_intersection(a, b, checks)
       IN  /\ call' = [op |-> "region_intersection", a |-> a, b |-> b,
                       checks |-> checks, result |-> res.region]
           /\ panicked' = res.panic
    /\ UNCHANGED <<built, dst, src, old, given>>

NextRegion ==
    /\ call.op = "new"
    /\ \E a \in RegionArgs, b \in RegionArgs, checks \in BOOLEAN :
        RegionIntersection(a, b, checks)

SpecRegion == InitBuild /\ [][NextRegion]_vars

(***************************************************************************)
(* Properties of Region::intersection (checked under SpecRegion)           *)
(***************************************************************************)
\* Two regions share no point: in x or in y, the larger origin is not
\* below the smaller far side.
Disjoint(a, b) ==
    \/ Max(a.x, b.x) >= Min(right(a), right(b))
    \/ Max(a.y, b.y) >= Min(bottom(a), bottom(b))

\* C11: Region::intersection is commutative (a.intersection(b) and
\* b.intersection(a) are the same rectangle), its result has zero area
\* when a and b are disjoint, and for overlapping a and b it is
\* (max x, max y, min right - max x, min bottom - max y).
C11_RegionIntersectionCommutative ==
    call.op = "region_intersection" =>
        LET a == call.a
            b == call.b
            r == call.result
            x0 == Max(a.x, b.x)
            y0 == Max(a.y, b.y)
        IN  /\ ~panicked
            /\ r = Region_intersection(b, a, call.checks).region
            /\ Disjoint(a, b) => r.width = 0 \/ r.height = 0
            /\ ~Disjoint(a, b) =>
                 r = [x |-> x0, y |-> y0,
                      width  |-> Min(right(a), right(b)) - x0,
                      height |-> Min(bottom(a), bottom(b)) - y0]

(***************************************************************************)
(* Channels (src/src/channel.rs).  A Ch8 is its u8 and a Ch16 its u16.  An *)
(* f32 is NaN or the fraction n / d of two integers, d > 0; the f32 values *)
(* of the model are fractions over a power of two, small enough for        *)
(* `value * 255.0` and `value * 65535.0` to be exact.                      *)
(***************************************************************************)
U8Max == 255

U16Max == 65535

NaN == [nan |-> TRUE, n |-> 0, d |-> 1]

F32(n, d) == [nan |-> FALSE, n |-> n, d |-> d]

\* The factor that brings the denominator d to the common denominator of
\* d and e: the larger of the two when one divides the other, their product
\* otherwise.
scale(d, e) == IF d % e = 0 THEN 1 ELSE IF e % d = 0 THEN e \div d ELSE e

\* x < y on f32: FALSE when either is NaN.  The two fractions are compared
\* over a common denominator.
f32_lt(x, y) ==
    /\ ~x.nan
    /\ ~y.nan
    /\ x.n * scale(x.d, y.d) < y.n * scale(y.d, x.d)

\* x <= y on f32: FALSE when either is NaN
f32_le(x, y) ==
    /\ ~x.nan
    /\ ~y.nan
    /\ x.n * scale(x.d, y.d) <= y.n * scale(y.d, x.d)

\* (value * k).round() for a value that is not negative: halves round up
f32_mul_round(value, k) == (2 * value.n * k + value.d) \div (2 * value.d)

\* impl From<u8> for Ch8
Ch8_from_u8(value) == value

\* impl From<Ch8> for u8
u8_from_Ch8(c) == c

\* impl From<f32> for Ch8.  The result is [panic, value].
Ch8_from_f32(value) ==
    [panic |-> FALSE,
     value |-> IF value.nan \/ f32_lt(value, F32(0, 1)) THEN 0
               ELSE IF f32_lt(F32(1, 1), value) THEN U8Max
               ELSE f32_mul_round(value, U8Max)]

\* impl From<f32> for Ch16: assert!(value >= 0.0 && value <= 1.0) panics
\* for every other value.  The result is [panic, value].
Ch16_from_f32(value) ==
    IF f32_le(F32(0, 1), value) /\ f32_le(value, F32(1, 1))
    THEN [panic |-> FALSE, value |-> f32_mul_round(value, U16Max)]
    ELSE [panic |-> TRUE, value |-> 0]

\* Ch32::new
Ch32_new(value) ==
    IF value.nan \/ f32_lt(value, F32(0, 1)) THEN F32(0, 1)
    ELSE IF f32_lt(F32(1, 1), value) THEN F32(1, 1)
    ELSE value

\* impl From<f32> for Ch32.  The result is [panic, value].
Ch32_from_f32(value) == [panic |-> FALSE, value |-> Ch32_new(value)]

\* impl From<u8> for Ch32: value as f32 * 255.0
Ch32_from_u8(value) == F32(value * U8Max, 1)

\* impl Mul for Ch8: (l << 4) | (l >> 4) is l * 16 + l \div 16 for a u8
Ch8_mul(self, rhs) ==
    LET l == self * 16 + self \div 16
        r == rhs * 16 + rhs \div 16
    IN  ((l * r) \div 65536) % 256

\* Ch8 division shifting the dividend by 7 bits instead of 8
Ch8_div_shift7(self, rhs) ==
    IF rhs > 0
    THEN Min((self * 128) \div rhs, U8Max)
    ELSE 0

\* impl Div for Ch8
Ch8_div(self, rhs) ==
    IF rhs > 0
    THEN Min((self * 256) \div rhs, U8Max)
    ELSE 0

\* scale_i32: `>> 8` on an i32 is the division by 256 rounded down
scale_i32(a, v) ==
    LET c == v * a
    IN  ((c + 1) + (c \div 256)) \div 256

\* Ch8::lerp_alpha: `r as u8` keeps the low 8 bits
Ch8_lerp_alpha(self, dest, alpha) ==
    LET top == self
        bot == dest
        r   == bot + scale_i32(alpha, top - bot)
    IN  r % 256

\* impl Mul for Ch16: (l << 8) | (l >> 8) is l * 256 + l \div 256 for a
\* u16.  The u64 product l * r is below 2^48; its bits from 2^24 up are
\* assembled from the 12-bit halves of l and r so that no intermediate
\* value leaves the 32-bit range, and `>> 32` takes the rest.
Ch16_mul(self, rhs) ==
    LET l  == self * 256 + self \div 256
        r  == rhs * 256 + rhs \div 256
        lh == l \div 4096
        ll == l % 4096
        rh == r \div 4096
        rl == r % 4096
        mid  == lh * rl + ll * rh
        sh24 == lh * rh + (mid + (ll * rl) \div 4096) \div 4096
    IN  (sh24 \div 256) % 65536

\* Ch16 division without `.min(65535)`: the quotient is cast to u16 and
\* keeps its low 16 bits (the quotient of self >= rhs is taken mod 2^16
\* 8 bits at a time)
Ch16_div_unsaturated(self, rhs) ==
    IF rhs > 0
    THEN LET rem == self % rhs
             q1  == (rem * 256) \div rhs
             r1  == (rem * 256) % rhs
             q0  == (r1 * 256) \div rhs
         IN  (q1 * 256 + q0) % 65536
    ELSE 0

\* impl Div for Ch16.  (self << 16) / rhs is at least 65536 when
\* self >= rhs; below that the quotient is taken 8 bits at a time so that
\* no intermediate value leaves the 32-bit range.
Ch16_div(self, rhs) ==
    IF rhs > 0
    THEN IF self >= rhs THEN U16Max
         ELSE LET q1 == (self * 256) \div rhs
                  r1 == (self * 256) % rhs
                  q0 == (r1 * 256) \div rhs
              IN  Min(q1 * 256 + q0, U16Max)
    ELSE 0

\* Ch16::lerp_alpha: alpha.into() is the u8 of the alpha channel, and
\* `r as u16` keeps the low 16 bits
Ch16_lerp_alpha(self, dest, alpha) ==
    LET top == self
        bot == dest
        r   == bot + scale_i32(u8_from_Ch16(alpha), top - bot)
    IN  r % 65536

\* impl Mul for Ch32 (the product before its rounding to an f32)
Ch32_mul(self, rhs) == F32(self.n * rhs.n, self.d * rhs.d)

\* impl Div for Ch32 (the quotient before its rounding to an f32)
Ch32_div(self, rhs) ==
    IF f32_lt(F32(0, 1), rhs)
    THEN LET q == F32(self.n * rhs.d, self.d * rhs.n)
         IN  IF f32_lt(F32(1, 1), q) THEN F32(1, 1) ELSE q
    ELSE F32(0, 1)

\* Ch32::lerp_alpha (the value before its rounding to an f32)
Ch32_lerp_alpha(self, dest, alpha) ==
    LET top == self
        bot == dest
        dn  == top.n * bot.d - bot.n * top.d
        dd  == top.d * bot.d
    IN  F32(bot.n * (alpha.d * dd) + (alpha.n * dn) * bot.d,
            bot.d * (alpha.d * dd))

\* impl From<Ch32> for u8.  A value outside 0.0..=1.0 fails the
\* debug_assert! in a build with debug assertions; without them the
\* float-to-int cast of a value that does not fit a u8 is undefined
\* behaviour on the compilers the comment names (bug #10184) and yields
\* `cast`, any u8.  The result is [panic, value].
u8_from_Ch32(c, checks, cast) ==
    IF f32_le(F32(0, 1), c) /\ f32_le(c, F32(1, 1))
    THEN [panic |-> FALSE, value |-> f32_mul_round(c, U8Max)]
    ELSE IF checks THEN [panic |-> TRUE, value |-> 0]
         ELSE [panic |-> FALSE, value |-> cast]

\* trait Channel: the constants and operations by channel type
Chan_MIN(chan) == IF chan = "Ch32" THEN F32(0, 1) ELSE 0

Chan_MAX(chan) ==
    CASE chan = "Ch8"  -> U8Max
      [] chan = "Ch16" -> U16Max
      [] chan = "Ch32" -> F32(1, 1)

Chan_mul(chan, a, b) ==
    CASE chan = "Ch8"  -> Ch8_mul(a, b)
      [] chan = "Ch16" -> Ch16_mul(a, b)
      [] chan = "Ch32" -> Ch32_mul(a, b)

Chan_div(chan, a, b) ==
    CASE chan = "Ch8"  -> Ch8_div(a, b)
      [] chan = "Ch16" -> Ch16_div(a, b)
      [] chan = "Ch32" -> Ch32_div(a, b)

Chan_lerp_alpha(chan, top, bot, alpha) ==
    CASE chan = "Ch8"  -> Ch8_lerp_alpha(top, bot, alpha)
      [] chan = "Ch16" -> Ch16_lerp_alpha(top, bot, alpha)
      [] chan = "Ch32" -> Ch32_lerp_alpha(top, bot, alpha)

Chan_from_f32(chan, value) ==
    CASE chan = "Ch8"  -> Ch8_from_f32(value)
      [] chan = "Ch16" -> Ch16_from_f32(value)
      [] chan = "Ch32" -> Ch32_from_f32(value)

Chan_from_u8(chan, value) ==
    CASE chan = "Ch8"  -> Ch8_from_u8(value)
      [] chan = "Ch16" -> Ch16_from_u8(value)
      [] chan = "Ch32" -> Ch32_from_u8(value)

\* Into<u8>.  The result is [panic, value].
Chan_into_u8(chan, c, checks, cast) ==
    CASE chan = "Ch8"  -> [panic |-> FALSE, value |-> u8_from_Ch8(c)]
      [] chan = "Ch16" -> [panic |-> FALSE, value |-> u8_from_Ch16(c)]
      [] chan = "Ch32" -> u8_from_Ch32(c, checks, cast)

(***************************************************************************)
(* SpecChan: one channel operation on values given by the caller, and      *)
(* into(u8) on the channel a from(u8) call returned.                       *)
(***************************************************************************)
ChanTypes == {"Ch8", "Ch16", "Ch32"}

\* The values within MaxEdge of v, between lo and hi.
Near(v, lo, hi) == {x \in (v - MaxEdge)..(v + MaxEdge) : lo <= x /\ x <= hi}

\* Sampled Ch8 values: near MIN, the middle and MAX.
Samples8 ==
    Near(0, 0, U8Max) \cup Near(128, 0, U8Max) \cup Near(U8Max, 0, U8Max)

\* Sampled Ch16 values: near MIN, 256 (the first value whose u8 is 1), the
\* middle and MAX.
Samples16 ==
    Near(0, 0, U16Max) \cup Near(256, 0, U16Max)
        \cup Near(32768, 0, U16Max) \cup Near(U16Max, 0, U16Max)

F32Den == 2 ^ MaxFracBits

\* The Ch32 values in range: 0.0 to 1.0 in steps of 1 / F32Den.
Samples32 == {F32(n, F32Den) : n \in 0..F32Den}

\* The f32 values a caller converts: NaN and -1.0 to 2.0 in steps of
\* 1 / F32Den.
F32Inputs == {NaN} \cup {F32(n, F32Den) : n \in (-F32Den)..(2 * F32Den)}

\* The operands of multiplication and division: every Ch8 value, sampled
\* Ch16 and Ch32 values.
Operands(chan) ==
    CASE chan = "Ch8"  -> 0..U8Max
      [] chan = "Ch16" -> Samples16
      [] chan = "Ch32" -> Samples32

\* The top and bottom operands of lerp_alpha.
LerpOperands(chan) ==
    CASE chan = "Ch8"  -> Samples8
      [] chan = "Ch16" -> Samples16
      [] chan = "Ch32" -> Samples32

\* a * b
ChanMul(chan, a, b) ==
    /\ call' = [op |-> "mul", chan |-> chan, a |-> a, b |-> b,
                result |-> Chan_mul(chan, a, b)]
    /\ panicked' = FALSE
    /\ UNCHANGED <<built, dst, src, old, given>>

\* a / b
ChanDiv(chan, a, b) ==
    /\ call' = [op |-> "div", chan |-> chan, a |-> a, b |-> b,
                result |-> Chan_div(chan, a, b)]
    /\ panicked' = FALSE
    /\ UNCHANGED <<built, dst, src, old, given>>

\* top.lerp_alpha(bot, alpha)
ChanLerpAlpha(chan, top, bot, alpha) ==
    /\ call' = [op |-> "lerp_alpha", chan |-> chan, top |-> top,
                bot |-> bot, alpha |-> alpha,
                result |-> Chan_lerp_alpha(chan, top, bot, alpha)]
    /\ panicked' = FALSE
    /\ UNCHANGED <<built, dst, src, old, given>>

\* Chan::from(value) for an f32 value
ChanFromF32(chan, value) ==
    /\ LET res == Chan_from_f32(chan, value)
       IN  /\ call' = [op |-> "from_f32", chan |-> chan, value |-> value,
                       result |-> res.value]
           /\ panicked' = res.panic
    /\ UNCHANGED <<built, dst, src, old, given>>

\* Chan::from(value) for a u8 value
ChanFromU8(chan, value) ==
    /\ call' = [op |-> "from_u8", chan |-> chan, value |-> value,
                result |-> Chan_from_u8(chan, value)]
    /\ panicked' = FALSE
    /\ UNCHANGED <<built, dst, src, old, given>>

\* c.into() to a u8, for the channel c the last from(u8) call returned
ChanIntoU8(checks, cast) ==
    /\ call.op = "from_u8"
    /\ LET res == Chan_into_u8(call.chan, call.result, checks, cast)
       IN  /\ call' = [op |-> "into_u8", chan |-> call.chan,
                       value |-> call.value, c |-> call.result,
                       result |-> res.value]
           /\ panicked' = res.panic
    /\ UNCHANGED <<built, dst, src, old, given>>

\* (a * b) / b, for the product the last multiplication returned
ChanDivBack ==
    /\ call.op = "mul"
    /\ call' = [op |-> "mul_div", chan |-> call.chan, a |-> call.a,
                b |-> call.b, product |-> call.result,
                result |-> Chan_div(call.chan, call.result, call.b)]
    /\ panicked' = FALSE
    /\ UNCHANGED <<built, dst, src, old, given>>

NextChan ==
    \/ /\ call.op = "new"
       /\ \E chan \in ChanTypes :
            \E a \in Operands(chan), b \in Operands(chan) :
                ChanMul(chan, a, b)
    \/ /\ call.op = "new"
       /\ \E chan \in ChanTypes :
            \E a \in Operands(chan), b \in Operands(chan) :
                ChanDiv(chan, a, b)
    \/ /\ call.op = "new"
       /\ \E chan \in ChanTypes :
            \E top \in LerpOperands(chan), bot \in LerpOperands(chan),
               alpha \in Operands(chan) :
                ChanLerpAlpha(chan, top, bot, alpha)
    \/ /\ call.op = "new"
       /\ \E chan \in ChanTypes, value \in F32Inputs :
            ChanFromF32(chan, value)
    \/ /\ call.op = "new"
       /\ \E chan \in ChanTypes, value \in 0..U8Max :
            ChanFromU8(chan, value)
    \/ \E checks \in BOOLEAN, cast \in 0..U8Max : ChanIntoU8(checks, cast)
    \/ ChanDivBack

SpecChan == InitBuild /\ [][NextChan]_vars

(***************************************************************************)
(* Properties of the channels (checked under SpecChan)                     *)
(***************************************************************************)
\* x == y on f32: FALSE when either is NaN
f32_eq(x, y) ==
    /\ ~x.nan
    /\ ~y.nan
    /\ x.n * scale(x.d, y.d) = y.n * scale(y.d, x.d)

\* Two channel values of one type are equal.
ChanEq(chan, x, y) == IF chan = "Ch32" THEN f32_eq(x, y) ELSE x = y

\* x <= y on two channel values of one type.
ChanLe(chan, x, y) == IF chan = "Ch32" THEN f32_le(x, y) ELSE x <= y

\* C12: for Ch8, Ch16 and Ch32, from(1.0) is MAX, from(0.0) is MIN,
\* from(v) is MIN for every negative v and for NaN and MAX for every
\* v > 1.0, and the construction never fails.
C12_FromF32Saturates ==
    call.op = "from_f32" =>
        LET v    == call.value
            chan == call.chan
        IN  /\ ~panicked
            /\ f32_eq(v, F32(1, 1)) =>
                 ChanEq(chan, call.result, Chan_MAX(chan))
            /\ f32_eq(v, F32(0, 1)) =>
                 ChanEq(chan, call.result, Chan_MIN(chan))
            /\ (v.nan \/ f32_lt(v, F32(0, 1))) =>
                 ChanEq(chan, call.result, Chan_MIN(chan))
            /\ f32_lt(F32(1, 1), v) =>
                 ChanEq(chan, call.result, Chan_MAX(chan))

\* C13: for Ch8 and Ch16, multiplication is commutative (a * b is b * a)
\* and MAX is its identity (x * MAX is x for every x).
C13_MulCommutativeIdentity ==
    (call.op = "mul" /\ call.chan \in {"Ch8", "Ch16"}) =>
        /\ call.result = Chan_mul(call.chan, call.b, call.a)
        /\ call.b = Chan_MAX(call.chan) => call.result = call.a

AbsDiff(x, y) == IF x >= y THEN x - y ELSE y - x

\* C14 as stated: for Ch8 and Ch16, for all a and all b other than MIN,
\* (a * b) / b differs from a by at most 1 unit.
C14_DivInvertsMulWithinOne ==
    (call.op = "mul_div" /\ call.chan \in {"Ch8", "Ch16"} /\ call.b # 0) =>
        AbsDiff(call.result, call.a) <= 1

\* C14 as amended: for Ch8 and Ch16, for all a and all b other than MIN,
\* (a * b) / b differs from a by at most MAX / b + 1 units (the quotient
\* rounded down): by at most 2 for b above MAX / 2, by at most 1 for
\* b = MAX.
C14_DivInvertsMulWithinBound ==
    (call.op = "mul_div" /\ call.chan \in {"Ch8", "Ch16"} /\ call.b # 0) =>
        /\ AbsDiff(call.result, call.a)
             <= Chan_MAX(call.chan) \div call.b + 1
        /\ call.b = Chan_MAX(call.chan) =>
             AbsDiff(call.result, call.a) <= 1

\* A Ch8 product divided back by a small b misses a by exactly the bound.
C14_Witness ==
    /\ call.op = "mul_div" /\ call.chan = "Ch8"
    /\ call.b > 1 /\ call.b < 16
    /\ AbsDiff(call.result, call.a) = U8Max \div call.b + 1

\* C15: for all channel values a and b, a / b is MIN when b is MIN,
\* a / b is MAX when MIN < b < a, and a / b lies in MIN..MAX.
C15_DivBoundaries ==
    call.op = "div" =>
        LET chan == call.chan
            a    == call.a
            b    == call.b
            MIN  == Chan_MIN(chan)
            MAX  == Chan_MAX(chan)
        IN  /\ ~panicked
            /\ ChanEq(chan, b, MIN) => ChanEq(chan, call.result, MIN)
            /\ (~ChanLe(chan, b, MIN) /\ ~ChanLe(chan, a, b)) =>
                 ChanEq(chan, call.result, MAX)
            /\ ChanLe(chan, MIN, call.result)
            /\ ChanLe(chan, call.result, MAX)

\* A Ch16 division saturates: the divisor is above MIN and one unit below
\* the dividend.
C15_Witness ==
    /\ call.op = "div" /\ call.chan = "Ch16"
    /\ call.b > 0 /\ call.a = call.b + 1
    /\ call.result = U16Max

\* The product u * v of two naturals, u <= 65536 and v <= 65535, as
\* <<high, low>> in base 65536: the product is assembled from the two
\* bytes of v so that no intermediate value leaves the 32-bit range.
Wide(u, v) ==
    LET hi8 == u * (v \div 256)
        lo8 == u * (v % 256)
    IN  <<(hi8 + lo8 \div 256) \div 256,
          ((hi8 % 256) * 256 + lo8) % 65536>>

\* p <= q for two products in base 65536
WideLe(p, q) == p[1] < q[1] \/ (p[1] = q[1] /\ p[2] <= q[2])

\* r is within 1 unit of bot + (alpha / MAX) * (top - bot), that is
\* (x - 1) * MAX <= alpha * d <= (x + 1) * MAX for d = |top - bot| and x
\* the move of r from bot towards top.
WithinOneOfLerp(r, top, bot, alpha, MAX) ==
    LET d == AbsDiff(top, bot)
        x == IF top >= bot THEN r - bot ELSE bot - r
    IN  /\ x <= 1 \/ WideLe(Wide(x - 1, MAX), Wide(d, alpha))
        /\ x + 1 >= 0
        /\ WideLe(Wide(d, alpha), Wide(x + 1, MAX))

\* C16: for Ch8 and Ch16, lerp_alpha(top, bottom, alpha) differs from
\* bottom + (alpha / MAX) * (top - bottom) by at most 1 unit, for all
\* values of top, bottom and alpha.
C16_LerpAlphaWithinOne ==
    (call.op = "lerp_alpha" /\ call.chan \in {"Ch8", "Ch16"}) =>
        WithinOneOfLerp(call.result, call.top, call.bot, call.alpha,
                        Chan_MAX(call.chan))

\* C17: for Ch8, Ch16 and Ch32 and every u8 value v, from(v) converted
\* back with into(u8) is v; from(u8) is monotonic (v1 <= v2 implies
\* from(v1) <= from(v2)); from(0) is MIN and from(255) is MAX.
C17_U8RoundTrip ==
    /\ call.op = "into_u8" => (~panicked /\ call.result = call.value)
    /\ call.op = "from_u8" =>
        LET chan == call.chan
        IN  /\ \A v2 \in 0..U8Max :
                 call.value <= v2 =>
                     ChanLe(chan, call.result, Chan_from_u8(chan, v2))
            /\ call.value = 0 => ChanEq(chan, call.result, Chan_MIN(chan))
            /\ call.value = U8Max =>
                 ChanEq(chan, call.result, Chan_MAX(chan))

\* C18: every channel value that new, from(f32) and from(u8) return, and
\* that multiplication, division and lerp_alpha return for operands in
\* range, lies in MIN..MAX; every Ch32 value is between 0.0 and 1.0.
C18_ChannelRange ==
    (~panicked
     /\ call.op \in {"from_f32", "from_u8", "mul", "div", "lerp_alpha"}) =>
        (ChanLe(call.chan, Chan_MIN(call.chan), call.result)
         /\ ChanLe(call.chan, call.result, Chan_MAX(call.chan)))

\* C24: for Ch8 and Ch16, lerp_alpha is exact at the ends of the alpha
\* range: top.lerp_alpha(dest, MIN) is dest and top.lerp_alpha(dest, MAX)
\* is top, for all top and dest.
C24_LerpAlphaExactAtEnds ==
    (call.op = "lerp_alpha" /\ call.chan \in {"Ch8", "Ch16"}) =>
        /\ call.alpha = Chan_MIN(call.chan) => call.result = call.bot
        /\ call.alpha = Chan_MAX(call.chan) => call.result = call.top

(***************************************************************************)
(* The HWB colour model (hwb.rs)                                           *)
(*                                                                         *)
(* The operations of this section are functions: an argument is evaluated  *)
(* once, when the function is applied.                                     *)
(***************************************************************************)
\* The f32 values: NaN and the fractions n / d.
F32Values == [nan : BOOLEAN, n : Int, d : Int]

\* The values of a channel type: a u8 or u16 for Ch8 and Ch16, an f32 for
\* Ch32.
Chans(chan) == IF chan = "Ch32" THEN F32Values ELSE Int

\* The powers of two below 2^31.
Pow2 == {2 ^ k : k \in 0..30}

\* The f32 operations of the colour models keep a value as the fraction
\* [n, d] with the common powers of two of n and d cancelled.
Frac[n \in Int, d \in Int] ==
    IF d % 2 # 0 \/ n % 2 # 0 THEN F32(n, d)
    ELSE LET g == CHOOSE g \in Pow2 :
                      /\ n % g = 0
                      /\ d % g = 0
                      /\ d % (2 * g) # 0 \/ (n % (2 * g) # 0 /\ n # 0)
         IN  F32(n \div g, d \div g)

\* The number of bits in the significand of an f32.
F32Digits == 24

\* n rounded to a multiple of m, a half to the even multiple
round_ties_even[n \in Int, m \in Int] ==
    LET q == n \div m
        r == n % m
    IN  IF 2 * r < m THEN q * m
        ELSE IF 2 * r > m THEN (q + 1) * m
        ELSE (q + (q % 2)) * m

\* The f32 nearest to a fraction.  A fraction whose denominator is a power
\* of two is rounded to F32Digits significant bits, a half to even, as the
\* f32 operation rounds it; any other fraction is kept as it is.
f32_round[x \in F32Values] ==
    LET n == abs(x.n)
        L == 2 ^ F32Digits
    IN  IF n < L \/ x.d \notin Pow2 THEN x
        ELSE LET m == CHOOSE m \in Pow2 :
                          m > 1 /\ n \div m < L /\ n \div (m \div 2) >= L
                 v == round_ties_even[n, m]
             IN  Frac[IF x.n < 0 THEN -v ELSE v, x.d]

\* x + y on f32
f32_add[x \in F32Values, y \in F32Values] ==
    f32_round[Frac[x.n * scale(x.d, y.d) + y.n * scale(y.d, x.d),
                   x.d * scale(x.d, y.d)]]

\* x - y on f32
f32_sub[x \in F32Values, y \in F32Values] ==
    f32_round[Frac[x.n * scale(x.d, y.d) - y.n * scale(y.d, x.d),
                   x.d * scale(x.d, y.d)]]

\* x * y on f32: a numerator equal to the other denominator is cancelled
\* before the product is taken.
f32_mul[x \in F32Values, y \in F32Values] ==
    f32_round[IF x.d = y.n THEN Frac[x.n, y.d]
              ELSE IF y.d = x.n THEN Frac[y.n, x.d]
              ELSE Frac[x.n * y.n, x.d * y.d]]

\* x / y on f32, for a positive y
f32_div[x \in F32Values, y \in F32Values] ==
    CASE y.n > 0 -> f32_mul[x, F32(y.d, y.n)]

\* a * b = q * d + r for a below 2^16, computed in 32 bits by splitting a
\* into its two bytes.
muldiv[a \in Int, b \in Int, d \in Int] ==
    LET ah == a \div 256
        al == a % 256
        q1 == (ah * b) \div d
        r1 == (ah * b) % d
        lo == r1 * 256 + al * b
    IN  [q |-> q1 * 256 + lo \div d, r |-> lo % d]

\* A value computed by a few f32 operations is within 2^-21 of the exact
\* value, relative to it: three bits short of the F32Digits of one operation.
F32Slack == 2 ^ (F32Digits - 4)

\* (value * k).round() for a value in 0.0..=1.0 that f32 operations
\* computed: further than k / 2^21 from a half, the exact fraction decides
\* the result; nearer, the rounding error of the operations does (`up`).
f32_mul_round_near[value \in F32Values, k \in Int, up \in BOOLEAN] ==
    LET md    == muldiv[k, value.n, value.d]
        off   == 2 * md.r - value.d
        slack == muldiv[k, value.d, F32Slack].q
    IN  IF abs(off) <= slack
        THEN md.q + (IF up THEN 1 ELSE 0)
        ELSE md.q + (IF off >= 0 THEN 1 ELSE 0)

\* P::Chan::from(value) for an f32 value that f32 operations computed.
\* The result is [panic, value].
Chan_from_f32_near[chan \in ChanTypes] ==
    [value \in F32Values, up \in BOOLEAN |->
        CASE chan = "Ch8" ->
               [panic |-> FALSE,
                value |-> IF value.nan \/ f32_lt(value, F32(0, 1)) THEN 0
                          ELSE IF f32_lt(F32(1, 1), value) THEN U8Max
                          ELSE f32_mul_round_near[value, U8Max, up]]
          [] chan = "Ch16" ->
               IF f32_le(F32(0, 1), value) /\ f32_le(value, F32(1, 1))
               THEN [panic |-> FALSE,
                     value |-> f32_mul_round_near[value, U16Max, up]]
               ELSE [panic |-> TRUE, value |-> 0]
          [] chan = "Ch32" -> Ch32_from_f32(value)]

\* Into<f32> of a channel: the value as a fraction of MAX
Chan_into_f32[chan \in ChanTypes] ==
    [c \in Chans(chan) |->
        CASE chan = "Ch8"  -> F32(c, U8Max)
          [] chan = "Ch16" -> F32(c, U16Max)
          [] chan = "Ch32" -> c]

\* Add of two channels saturates at MAX.
Chan_add[chan \in ChanTypes] ==
    [a \in Chans(chan), b \in Chans(chan) |->
        IF chan = "Ch32"
        THEN LET s == f32_add[a, b]
             IN  IF f32_lt(F32(1, 1), s) THEN F32(1, 1) ELSE s
        ELSE Min(a + b, Chan_MAX(chan))]

\* Sub of two channels saturates at MIN.
Chan_sub[chan \in ChanTypes] ==
    [a \in Chans(chan), b \in Chans(chan) |->
        IF chan = "Ch32"
        THEN LET s == f32_sub[a, b]
             IN  IF f32_lt(s, F32(0, 1)) THEN F32(0, 1) ELSE s
        ELSE Max(a - b, 0)]

\* a < b on two channels of one type
Chan_lt[chan \in ChanTypes] ==
    [a \in Chans(chan), b \in Chans(chan) |->
        IF chan = "Ch32" THEN f32_lt(a, b) ELSE a < b]

Chan_max[chan \in ChanTypes] ==
    [a \in Chans(chan), b \in Chans(chan) |->
        IF Chan_lt[chan][a, b] THEN b ELSE a]

Chan_min[chan \in ChanTypes] ==
    [a \in Chans(chan), b \in Chans(chan) |->
        IF Chan_lt[chan][b, a] THEN b ELSE a]

\* Mul of two channels
mul[chan \in ChanTypes] ==
    [a \in Chans(chan), b \in Chans(chan) |->
        Chan_mul(chan, a, b)]

\* Div of two channels
div[chan \in ChanTypes] ==
    [a \in Chans(chan), b \in Chans(chan) |->
        Chan_div(chan, a, b)]

\* A pixel of the HWB model is <<hue, whiteness, blackness, alpha>>.
HwbModel_hue(p) == p[1]

HwbModel_whiteness(p) == p[2]

HwbModel_blackness(p) == p[3]

HwbModel_alpha(p) == p[4]

\* The rescaled pair of whiteness_blackness: (w * ratio, b * ratio) for
\* ratio = 1.0 / (w + b).  up[1] and up[2] are the directions the f32
\* rounding error gives to the two conversions P::Chan::from.
normalized[chan \in ChanTypes] ==
    [w \in F32Values, b \in F32Values, up \in BOOLEAN \X BOOLEAN |->
        LET ratio == f32_div[F32(1, 1), f32_add[w, b]]
            cw    == Chan_from_f32_near[chan][f32_mul[w, ratio], up[1]]
            cb    == Chan_from_f32_near[chan][f32_mul[b, ratio], up[2]]
        IN  [panic |-> cw.panic \/ cb.panic, whiteness |-> cw.value,
             blackness |-> cb.value]]

\* HwbModel::whiteness_blackness.  The result is
\* [panic, whiteness, blackness].
whiteness_blackness[chan \in ChanTypes] ==
    [p \in Seq(Chans(chan)), up \in BOOLEAN \X BOOLEAN |->
        LET whiteness == HwbModel_whiteness(p)
            blackness == HwbModel_blackness(p)
        IN  IF Chan_lt[chan][Chan_sub[chan][Chan_add[chan][whiteness, blackness],
                                      blackness], whiteness]
            THEN normalized[chan][Chan_into_f32[chan][whiteness],
                            Chan_into_f32[chan][blackness], up]
            ELSE [panic |-> FALSE, whiteness |-> whiteness,
                  blackness |-> blackness]]

\* Hexcone::from_hue_prime: the sextant hp falls in (0 is red, 1 yellow,
\* 2 green, 3 cyan, 4 blue, 5 magenta) and the fraction of hp within it.
Hexcone_from_hue_prime[hp \in F32Values] ==
    LET h == hp.n \div hp.d
    IN  [sextant |-> IF h \in 1..5 THEN h ELSE 0,
         hf      |-> F32(hp.n % hp.d, hp.d)]

\* Hexcone::secondary: the middle component of the colour, for the channel
\* f of the fraction hf
Hexcone_secondary[chan \in ChanTypes] ==
    [sextant \in 0..5, f \in Chans(chan), chroma \in Chans(chan) |->
        IF sextant \in {0, 2, 4}
        THEN mul[chan][chroma, f]
        ELSE mul[chan][chroma, Chan_sub[chan][Chan_MAX(chan), f]]]

\* Hexcone::rgb: <<red, green, blue>> of the hue at a chroma.  The result is
\* [panic, rgb].
Hexcone_rgb[chan \in ChanTypes] ==
    [hc \in [sextant : 0..5, hf : F32Values], chroma \in Chans(chan) |->
        LET f         == Chan_from_f32_near[chan][hc.hf, TRUE]
            secondary == Hexcone_secondary[chan][hc.sextant, f.value, chroma]
            MIN       == Chan_MIN(chan)
        IN  [panic |-> f.panic,
             rgb   |-> CASE hc.sextant = 0 -> <<chroma, secondary, MIN>>
                         [] hc.sextant = 1 -> <<secondary, chroma, MIN>>
                         [] hc.sextant = 2 -> <<MIN, chroma, secondary>>
                         [] hc.sextant = 3 -> <<MIN, secondary, chroma>>
                         [] hc.sextant = 4 -> <<secondary, MIN, chroma>>
                         [] hc.sextant = 5 -> <<chroma, MIN, secondary>>]]

\* The colour of into_rgba once v and chroma are known: the components of
\* the hexcone with m = v - chroma added.
rgb_plus_m[chan \in ChanTypes] ==
    [p \in Seq(Chans(chan)), v \in Chans(chan), chroma \in Chans(chan) |->
        LET hp  == f32_mul[Chan_into_f32[chan][HwbModel_hue(p)], F32(6, 1)]
            hc  == Hexcone_rgb[chan][Hexcone_from_hue_prime[hp], chroma]
            m   == Chan_sub[chan][v, chroma]
        IN  [panic |-> hc.panic,
             rgba  |-> <<Chan_add[chan][hc.rgb[1], m], Chan_add[chan][hc.rgb[2], m],
                         Chan_add[chan][hc.rgb[3], m], HwbModel_alpha(p)>>]]

\* into_rgba for the pair wb of whiteness_blackness
into_rgba_wb[chan \in ChanTypes] ==
    [p \in Seq(Chans(chan)), wb \in [panic : BOOLEAN,
     whiteness : Chans(chan), blackness : Chans(chan)] |->
        LET v  == Chan_sub[chan][Chan_MAX(chan), wb.blackness]
            r  == rgb_plus_m[chan][p, v, Chan_sub[chan][v, wb.whiteness]]
        IN  [panic |-> wb.panic \/ r.panic, rgba |-> r.rgba]]

\* into_rgba without m = v - chroma added to the components
HwbModel_into_rgba_unlifted(chan, p, up) ==
    LET wb     == whiteness_blackness[chan][p, up]
        v      == Chan_sub[chan][Chan_MAX(chan), wb.blackness]
        chroma == Chan_sub[chan][v, wb.whiteness]
        r      == rgb_plus_m[chan][p, chroma, chroma]
    IN  [panic |-> wb.panic \/ r.panic, rgba |-> r.rgba]

\* HwbModel::into_rgba.  The result is [panic, rgba].
HwbModel_into_rgba(chan, p, up) ==
    into_rgba_wb[chan][p, whiteness_blackness[chan][p, up]]

\* The hue prime of an RGB colour with chroma c above zero: the sextant of
\* the largest component and the share of the middle one.
hue_prime[chan \in ChanTypes] ==
    [red \in Chans(chan), green \in Chans(chan), blue \in Chans(chan),
     val \in Chans(chan), c \in F32Values |->
        IF ChanEq(chan, val, red)
        THEN IF ~Chan_lt[chan][green, blue]
             THEN f32_div[Chan_into_f32[chan][Chan_sub[chan][green, blue]], c]
             ELSE f32_sub[F32(6, 1),
                          f32_div[Chan_into_f32[chan][Chan_sub[chan][blue, green]],
                                  c]]
        ELSE IF ChanEq(chan, val, green)
             THEN IF ~Chan_lt[chan][blue, red]
                  THEN f32_add[F32(2, 1),
                               f32_div[Chan_into_f32[chan][Chan_sub[chan][blue, red]], c]]
                  ELSE f32_sub[F32(2, 1),
                               f32_div[Chan_into_f32[chan][Chan_sub[chan][red, blue]], c]]
             ELSE IF ~Chan_lt[chan][red, green]
                  THEN f32_add[F32(4, 1),
                               f32_div[Chan_into_f32[chan][Chan_sub[chan][red, green]], c]]
                  ELSE f32_sub[F32(4, 1),
                               f32_div[Chan_into_f32[chan][Chan_sub[chan][green, red]], c]]]

\* The hue of a colour of the given value and chroma: MIN without chroma.
hue_of[chan \in ChanTypes] ==
    [red \in Chans(chan), green \in Chans(chan), blue \in Chans(chan),
     val \in Chans(chan), chroma \in Chans(chan), up \in BOOLEAN |->
        IF Chan_lt[chan][Chan_MIN(chan), chroma]
        THEN Chan_from_f32_near[chan][f32_div[hue_prime[chan][red, green, blue, val,
                                   Chan_into_f32[chan][chroma]], F32(6, 1)],
                 up]
        ELSE [panic |-> FALSE, value |-> Chan_MIN(chan)]]

\* The chroma and the hue of a colour whose smallest and largest components
\* are low and val
chroma_hue[chan \in ChanTypes] ==
    [red \in Chans(chan), green \in Chans(chan), blue \in Chans(chan),
     low \in Chans(chan), val \in Chans(chan), up \in BOOLEAN |->
        LET chroma == Chan_sub[chan][val, low]
            hue    == hue_of[chan][red, green, blue, val, chroma, up]
        IN  [panic |-> hue.panic, hue |-> hue.value, chroma |-> chroma,
             val |-> val]]

\* rgb_to_hue_chroma_value: the hue, chroma and value of an RGB colour.  The
\* result is [panic, hue, chroma, val].
rgb_to_hue_chroma_value[chan \in ChanTypes] ==
    [red \in Chans(chan), green \in Chans(chan), blue \in Chans(chan),
     up \in BOOLEAN |->
        chroma_hue[chan][red, green, blue,
                   Chan_min[chan][Chan_min[chan][red, green], blue],
                   Chan_max[chan][Chan_max[chan][red, green], blue], up]]

\* from_rgba for the hue, chroma and value hcv, with the whiteness left as
\* MAX - sat_v
from_hcv_unscaled[chan \in ChanTypes] ==
    [alpha \in Chans(chan), hcv \in [panic : BOOLEAN, hue : Chans(chan),
     chroma : Chans(chan), val : Chans(chan)] |->
        LET sat_v     == div[chan][hcv.chroma, hcv.val]
            whiteness == Chan_sub[chan][Chan_MAX(chan), sat_v]
            blackness == Chan_sub[chan][Chan_MAX(chan), hcv.val]
        IN  [panic |-> hcv.panic,
             p     |-> <<hcv.hue, whiteness, blackness, alpha>>]]

\* from_rgba for the hue, chroma and value hcv of the colour
from_hcv[chan \in ChanTypes] ==
    [alpha \in Chans(chan), hcv \in [panic : BOOLEAN, hue : Chans(chan),
     chroma : Chans(chan), val : Chans(chan)] |->
        LET sat_v     == div[chan][hcv.chroma, hcv.val]
            whiteness == mul[chan][Chan_sub[chan][Chan_MAX(chan), sat_v], hcv.val]
            blackness == Chan_sub[chan][Chan_MAX(chan), hcv.val]
        IN  [panic |-> hcv.panic,
             p     |-> <<hcv.hue, whiteness, blackness, alpha>>]]

\* from_rgba with the whiteness not scaled by the value
HwbModel_from_rgba_unscaled(chan, rgba, up) ==
    from_hcv_unscaled[chan][rgba[4],
        rgb_to_hue_chroma_value[chan][rgba[1], rgba[2], rgba[3], up]]

\* HwbModel::from_rgba.  The result is [panic, p].
HwbModel_from_rgba(chan, rgba, up) ==
    from_hcv[chan][rgba[4],
        rgb_to_hue_chroma_value[chan][rgba[1], rgba[2], rgba[3], up]]

\* The colour models of the source or destination of a conversion.
Models == {"Hwb", "Rgb"}

\* Channels::new: the four channels shared by pixel types and the index of
\* the alpha channel among them (counted from 0)
Channels_new(channels, alpha_idx) ==
    [channels |-> channels, alpha_idx |-> alpha_idx]

\* HwbModel::into_channels::<S, D> for a destination of model D.  The
\* result is [panic, channels].
HwbModel_into_channels(chan, p, D, up) ==
    IF "Hwb" = D
    THEN [panic    |-> FALSE,
          channels |-> Channels_new(<<HwbModel_whiteness(p),
                                      HwbModel_blackness(p),
                                      HwbModel_alpha(p),
                                      HwbModel_hue(p)>>, 2)]
    ELSE LET r == HwbModel_into_rgba(chan, p, up)
         IN  [panic |-> r.panic, channels |-> Channels_new(r.rgba, 3)]

\* from_channels passing the array on as it is
HwbModel_from_channels_unpermuted(chan, S, channels, checks, up) ==
    [panic |-> checks /\ channels.alpha_idx # 2, p |-> channels.channels]

\* HwbModel::from_channels::<S, D> for a source of model S; checks tells
\* whether the build has debug assertions.  ch[i] of the code is ch[i + 1]
\* here.  The result is [panic, p].
HwbModel_from_channels(chan, S, channels, checks, up) ==
    IF S = "Hwb"
    THEN LET ch == channels.channels
         IN  [panic |-> checks /\ channels.alpha_idx # 2,
              p     |-> <<ch[4], ch[1], ch[2], ch[3]>>]
    ELSE LET r == HwbModel_from_rgba(chan, channels.channels, up)
         IN  [panic |-> (checks /\ channels.alpha_idx # 3) \/ r.panic,
              p     |-> r.p]

(***************************************************************************)
(* SpecHwb: one conversion between the HWB and the RGB model               *)
(***************************************************************************)
\* Half the distance from the f32 0.5 to the next f32 above it: 2^-25.
F32HalfUlp == F32(1, 2 ^ (F32Digits + 1))

\* The sampled channel values of a colour component: for Ch32, the values
\* in steps of 1 / F32Den and F32HalfUlp.
HwbSamples(chan) ==
    CASE chan = "Ch8"  -> Samples8
      [] chan = "Ch16" -> Samples16
      [] chan = "Ch32" -> Samples32 \cup {F32HalfUlp}

\* The sampled hues: every twelfth of the full turn.
Hues(chan) == {Chan_from_f32(chan, F32(k, 12)).value : k \in 0..12}

\* The alpha of a pixel: transparent or opaque.
Alphas(chan) == {Chan_MIN(chan), Chan_MAX(chan)}

\* HwbModel::into_rgba(p)
HwbIntoRgba(chan, p, up) ==
    \E wb \in {whiteness_blackness[chan][p, up]} :
        \E r \in {HwbModel_into_rgba(chan, p, up)} :
            /\ call' = [op |-> "into_rgba", chan |-> chan, p |-> p,
                        whiteness |-> wb.whiteness,
                        blackness |-> wb.blackness, result |-> r.rgba]
            /\ panicked' = r.panic
            /\ UNCHANGED <<built, dst, src, old, given>>

\* HwbModel::from_rgba(rgba)
HwbFromRgba(chan, rgba, up) ==
    \E r \in {HwbModel_from_rgba(chan, rgba, up)} :
        /\ call' = [op |-> "from_rgba", chan |-> chan, rgba |-> rgba,
                    result |-> r.p]
        /\ panicked' = r.panic
        /\ UNCHANGED <<built, dst, src, old, given>>

\* HwbModel::into_channels::<S, D>(p)
HwbIntoChannels(chan, p, D, up) ==
    \E r \in {HwbModel_into_channels(chan, p, D, up)} :
        /\ call' = [op |-> "into_channels", chan |-> chan, p |-> p,
                    D |-> D, channels |-> r.channels]
        /\ panicked' = r.panic
        /\ UNCHANGED <<built, dst, src, old, given>>

\* HwbModel::from_channels::<S, D>(channels), for the channels that
\* into_channels of the model S returned for the pixel p
HwbFromChannels(chan, p, S, channels, checks, up) ==
    \E r \in {HwbModel_from_channels(chan, S, channels, checks, up)} :
        /\ call' = [op |-> "from_channels", chan |-> chan, p |-> p,
                    S |-> S, channels |-> channels, result |-> r.p]
        /\ panicked' = r.panic
        /\ UNCHANGED <<built, dst, src, old, given>>

\* HwbModel::into_rgba(p) for the pixel p the last from_rgba call returned
\* for the colour rgba
HwbBackIntoRgba(up) ==
    /\ call.op = "from_rgba"
    /\ ~panicked
    /\ \E wb \in {whiteness_blackness[call.chan][call.result, up]} :
        \E r \in {HwbModel_into_rgba(call.chan, call.result, up)} :
            /\ call' = [op |-> "from_into_rgba", chan |-> call.chan,
                        rgba |-> call.rgba, p |-> call.result,
                        whiteness |-> wb.whiteness,
                        blackness |-> wb.blackness, result |-> r.rgba]
            /\ panicked' = r.panic
    /\ UNCHANGED <<built, dst, src, old, given>>

NextHwb ==
    \/ /\ call.op = "new"
       /\ \E chan \in ChanTypes :
            \E hue \in Hues(chan), w \in HwbSamples(chan),
               b \in HwbSamples(chan), alpha \in Alphas(chan),
               up \in BOOLEAN \X BOOLEAN :
                HwbIntoRgba(chan, <<hue, w, b, alpha>>, up)
    \/ /\ call.op = "new"
       /\ \E chan \in ChanTypes :
            \E red \in HwbSamples(chan), green \in HwbSamples(chan),
               blue \in HwbSamples(chan), alpha \in Alphas(chan),
               up \in BOOLEAN :
                HwbFromRgba(chan, <<red, green, blue, alpha>>, up)
    \/ /\ call.op = "new"
       /\ \E chan \in ChanTypes, D \in Models :
            \E hue \in Hues(chan), w \in HwbSamples(chan),
               b \in HwbSamples(chan), alpha \in Alphas(chan),
               up \in BOOLEAN \X BOOLEAN :
                HwbIntoChannels(chan, <<hue, w, b, alpha>>, D, up)
    \/ /\ call.op = "into_channels"
       /\ call.D = "Hwb"
       /\ ~panicked
       /\ \E checks \in BOOLEAN, up \in BOOLEAN :
            HwbFromChannels(call.chan, call.p, "Hwb", call.channels,
                            checks, up)
    \/ /\ call.op = "new"
       /\ \E chan \in ChanTypes :
            \E red \in HwbSamples(chan), green \in HwbSamples(chan),
               blue \in HwbSamples(chan), alpha \in Alphas(chan),
               checks \in BOOLEAN, up \in BOOLEAN :
                HwbFromChannels(chan, <<red, green, blue, alpha>>, "Rgb",
                                Channels_new(<<red, green, blue, alpha>>, 3),
                                checks, up)
    \/ \E up \in BOOLEAN \X BOOLEAN : HwbBackIntoRgba(up)

SpecHwb == InitBuild /\ [][NextHwb]_vars

(***************************************************************************)
(* Properties of the HWB model (checked under SpecHwb)                     *)
(***************************************************************************)
\* whiteness + blackness > MAX
HwbOver(chan, w, b) ==
    IF chan = "Ch32" THEN f32_lt(F32(1, 1), f32_add[w, b])
    ELSE w + b > Chan_MAX(chan)

\* part is the share MAX * x / (x + y) of x in x + y, rounded down or up.
KeepsShare(chan, part, x, y) ==
    IF chan = "Ch32" THEN f32_eq(f32_mul[part, f32_add[x, y]], x)
    ELSE LET md == muldiv[Chan_MAX(chan), x, x + y]
         IN  md.q <= part /\ part <= md.q + (IF md.r > 0 THEN 1 ELSE 0)

\* C19: when whiteness + blackness > MAX, the pair that into_rgba uses has
\* a sum equal to MAX and keeps the ratio of the original pair, up to
\* rounding: for Ch8 and Ch16 the sum is within one unit of MAX, for Ch32 it
\* rounds to MAX, and each part is the proportional share of the original
\* rounded down or up.  When whiteness + blackness <= MAX the pair is used
\* unchanged.
C19_HwbNormalization ==
    call.op = "into_rgba" =>
        LET chan == call.chan
            w    == HwbModel_whiteness(call.p)
            b    == HwbModel_blackness(call.p)
        IN  IF HwbOver(chan, w, b)
            THEN /\ IF chan = "Ch32"
                    THEN f32_eq(f32_add[call.whiteness, call.blackness],
                                F32(1, 1))
                    ELSE AbsDiff(call.whiteness + call.blackness,
                                 Chan_MAX(chan)) <= 1
                 /\ KeepsShare(chan, call.whiteness, w, b)
                 /\ KeepsShare(chan, call.blackness, b, w)
            ELSE /\ ChanEq(chan, call.whiteness, w)
                 /\ ChanEq(chan, call.blackness, b)

\* C20: from_rgba of red = green = blue = MIN, for any alpha, returns
\* hue MIN, whiteness MIN and blackness MAX without failing; chroma / value
\* divides MIN by MIN and is MIN.
C20_FromRgbaBlack ==
    (/\ call.op = "from_rgba"
     /\ \A i \in 1..3 : ChanEq(call.chan, call.rgba[i], Chan_MIN(call.chan)))
        => /\ ~panicked
           /\ ChanEq(call.chan, call.result[1], Chan_MIN(call.chan))
           /\ ChanEq(call.chan, call.result[2], Chan_MIN(call.chan))
           /\ ChanEq(call.chan, call.result[3], Chan_MAX(call.chan))
           /\ ChanEq(call.chan, call.result[4], call.rgba[4])
           /\ ChanEq(call.chan, Chan_MIN(call.chan),
                     Chan_div(call.chan, Chan_MIN(call.chan),
                              Chan_MIN(call.chan)))

\* Reached: the opaque black 16-bit pixel converted to hue 0, whiteness 0,
\* blackness MAX.
C20_Witness ==
    /\ call.op = "from_rgba"
    /\ call.chan = "Ch16"
    /\ call.rgba = <<0, 0, 0, U16Max>>
    /\ call.result = <<0, 0, U16Max, U16Max>>
    /\ ~panicked

\* C21: a conversion from HWB to HWB at one channel precision bypasses the
\* RGBA path: from_channels of the channels into_channels returned is a
\* pixel whose hue, whiteness, blackness and alpha are those of the source,
\* also when whiteness + blackness > MAX.
C21_SameModelKeepsComponents ==
    (call.op = "from_channels" /\ call.S = "Hwb") =>
        /\ ~panicked
        /\ call.channels.alpha_idx = 2
        /\ call.result = call.p

\* Reached: an 8-bit pixel with whiteness + blackness > MAX converted to
\* itself.
C21_Witness ==
    /\ call.op = "from_channels"
    /\ call.S = "Hwb"
    /\ call.chan = "Ch8"
    /\ call.p = <<Chan_from_f32("Ch8", F32(1, 12)).value, U8Max, 128, U8Max>>
    /\ call.result = call.p
    /\ ~panicked

C25_FromRgbaNormalized ==
    /\ (call.op = "from_rgba" /\ call.chan \in {"Ch8", "Ch16"}) =>
         LET val == Max(call.rgba[1], Max(call.rgba[2], call.rgba[3]))
             p   == call.result
         IN  /\ HwbModel_blackness(p) = Chan_MAX(call.chan) - val
             /\ HwbModel_whiteness(p) <= val
             /\ HwbModel_whiteness(p) + HwbModel_blackness(p)
                  <= Chan_MAX(call.chan)
    /\ (call.op = "from_into_rgba" /\ call.chan \in {"Ch8", "Ch16"}) =>
         /\ call.whiteness = HwbModel_whiteness(call.p)
         /\ call.blackness = HwbModel_blackness(call.p)

\* Reached: the 16-bit pink (MAX, 32768, 32768) became a pixel of whiteness
\* 32768 and blackness 0, and into_rgba used that pair.
C25_Witness ==
    /\ call.op = "from_into_rgba"
    /\ call.chan = "Ch16"
    /\ call.rgba = <<U16Max, 32768, 32768, U16Max>>
    /\ HwbModel_whiteness(call.p) > 0
    /\ HwbModel_whiteness(call.p) <= 32768
    /\ call.whiteness = HwbModel_whiteness(call.p)
    /\ call.blackness = 0
    /\ ~panicked

====
